---- MODULE Spec2Model ----
(***************************************************************************)
(* FloodFeatureEngineer (ml-service/app/services/preprocessor.py).         *)
(*                                                                         *)
(* A pandas DataFrame is a function from column names to value sequences   *)
(* of one length.  float64 values are held in fixed point, one scale per   *)
(* column family:                                                          *)
(*   precipitation, rainfall_*, peak_*, variability, API   1/MM mm         *)
(*   soil moisture columns                                 1/SM m3/m3      *)
(*   temperature, heat_index                               1/100 degC      *)
(*   humidity (percent), pressure (hPa), wind              units           *)
(*   sine / cosine encodings                               1/1000          *)
(* Products and quotients truncate to the column's scale where binary      *)
(* floating point would round.  Timestamps are hours since 1 January 00:00 *)
(* of a 365-day year.                                                      *)
(***************************************************************************)
EXTENDS Integers, Sequences, FiniteSets, TLC

\* ------------------------------------------------------------------ bounds
MaxShort == 3
MaxExtra == 1
MaxLabelRows == 2

\* ----------------------------------------------------------- float64 model
NaN == -999999999
MM == 1000
SM == 10000

Max2(a, b) == IF a >= b THEN a ELSE b

\* a sequence given by a function on 1..n, as a tuple of its values
AsSeq(f) == SubSeq(f, 1, Len(f))

\* Series.fillna(scalar)
FillNa(s, v) == AsSeq([i \in 1..Len(s) |-> IF s[i] = NaN THEN v ELSE s[i]])

\* Series.fillna(other series), aligned by row
FillNaFrom(s, t) ==
  AsSeq([i \in 1..Len(s) |-> IF s[i] = NaN THEN t[i] ELSE s[i]])

\* elementwise float arithmetic: NaN propagates
Sub(a, b) == IF a = NaN \/ b = NaN THEN NaN ELSE a - b
MulDiv(a, b, d) == IF a = NaN \/ b = NaN THEN NaN ELSE (a * b) \div d

\* comparisons with NaN are False
Ge(a, b) == a # NaN /\ a >= b
Gt(a, b) == a # NaN /\ a > b

RECURSIVE SumRange(_, _, _)
SumRange(s, lo, hi) ==
  IF lo > hi THEN 0
  ELSE (IF s[hi] = NaN THEN 0 ELSE s[hi]) + SumRange(s, lo, hi - 1)

RECURSIVE SumSqRange(_, _, _)
SumSqRange(s, lo, hi) ==
  IF lo > hi THEN 0
  ELSE (IF s[hi] = NaN THEN 0 ELSE s[hi] * s[hi]) + SumSqRange(s, lo, hi - 1)

RECURSIVE MaxRange(_, _, _)
MaxRange(s, lo, hi) ==
  IF lo = hi THEN s[lo] ELSE Max2(s[hi], MaxRange(s, lo, hi - 1))

RECURSIVE ISqrtIn(_, _, _)
ISqrtIn(n, lo, hi) ==
  IF lo >= hi THEN lo
  ELSE LET mid == (lo + hi + 1) \div 2
       IN  IF mid * mid <= n THEN ISqrtIn(n, mid, hi) ELSE ISqrtIn(n, lo, mid - 1)

\* floor of the square root
ISqrt(n) == ISqrtIn(n, 0, 46340)

\* number of non-NaN observations in the trailing window of w rows ending at i
WindowCount(s, w, i) == Cardinality({j \in Max2(1, i - w + 1)..i : s[j] # NaN})

\* Series.rolling(w, min_periods=mp).sum() at row i.  RollingSumLeft is the
\* faulty variant whose window is shifted one row back (closed="left").
RollingSumLeft(s, w, mp, i) ==
  IF WindowCount(s, w, i - 1) < mp THEN NaN
  ELSE SumRange(s, Max2(1, i - w), i - 1)

RollingSum(s, w, mp, i) ==
  IF WindowCount(s, w, i) < mp THEN NaN
  ELSE SumRange(s, Max2(1, i - w + 1), i)

\* Series.rolling(w).max() at row i; min_periods defaults to w.
\* RollingMaxPartial is the faulty variant that takes the statistic over the
\* partial prefix (min_periods=1).
RollingMaxPartial(s, w, i) ==
  IF WindowCount(s, w, i) < 1 THEN NaN
  ELSE MaxRange(s, Max2(1, i - w + 1), i)

RollingMax(s, w, i) ==
  IF WindowCount(s, w, i) < w THEN NaN
  ELSE MaxRange(s, Max2(1, i - w + 1), i)

\* Series.rolling(w).std() at row i: sample standard deviation (ddof=1)
RollingStd(s, w, i) ==
  IF WindowCount(s, w, i) < w THEN NaN
  ELSE LET lo == i - w + 1
           S  == SumRange(s, lo, i)
           Q  == SumSqRange(s, lo, i)
       IN  ISqrt((w * Q - S * S) \div (w * (w - 1)))

\* Series.diff(k) at row i
Diff(s, k, i) == IF i <= k THEN NaN ELSE Sub(s[i], s[i - k])

\* position of row i in ascending order of s
Rank(s, i) ==
  Cardinality({j \in 1..Len(s) : s[j] < s[i] \/ (s[j] = s[i] /\ j < i)}) + 1

\* DataFrame.sort_values: the row order that puts s in ascending order
SortPerm(s) ==
  AsSeq([k \in 1..Len(s) |-> CHOOSE i \in 1..Len(s) : Rank(s, i) = k])

\* Series.median(): NaN skipped; NaN for an all-NaN or empty series
Median(s) ==
  LET v == SelectSeq(s, LAMBDA x : x # NaN)
      n == Len(v)
      o == SortPerm(v)
  IN  IF n = 0 THEN NaN
      ELSE IF n % 2 = 1 THEN v[o[(n + 1) \div 2]]
      ELSE (v[o[n \div 2]] + v[o[n \div 2 + 1]]) \div 2

\* ---------------------------------------------------------------- calendar
DaysBeforeMonth == << 0, 31, 59, 90, 120, 151, 181, 212, 243, 273, 304, 334 >>

\* Series.dt.dayofyear
DayOfYear(t) == t \div 24 + 1

\* Series.dt.month
MonthOf(t) ==
  CHOOSE m \in 1..12 :
    /\ DaysBeforeMonth[m] < DayOfYear(t)
    /\ (m = 12 \/ DayOfYear(t) <= DaysBeforeMonth[m + 1])

MonthSinTable ==
  << 500, 866, 1000, 866, 500, 0, -500, -866, -1000, -866, -500, 0 >>
MonthCosTable ==
  << 866, 500, 0, -500, -866, -1000, -866, -500, 0, 500, 866, 1000 >>
DaySinTable ==
  << 17, 34, 52, 69, 86, 103, 120, 137, 154, 171, 188, 205, 222, 239, 255,
     272, 288, 305, 321, 338, 354, 370, 386, 401, 417, 433, 448, 464, 479, 494,
     509, 523, 538, 552, 567, 581, 595, 608, 622, 635, 649, 662, 674, 687, 699,
     712, 724, 735, 747, 758, 769, 780, 791, 801, 812, 821, 831, 841, 850, 859,
     867, 876, 884, 892, 900, 907, 914, 921, 928, 934, 940, 946, 951, 956, 961,
     966, 970, 974, 978, 981, 984, 987, 990, 992, 994, 996, 997, 998, 999, 1000,
     1000, 1000, 1000, 999, 998, 997, 995, 993, 991, 989, 986, 983, 980, 976, 972,
     968, 963, 959, 954, 948, 943, 937, 931, 924, 918, 911, 903, 896, 888, 880,
     872, 863, 854, 845, 836, 826, 817, 806, 796, 786, 775, 764, 753, 741, 730,
     718, 706, 693, 681, 668, 655, 642, 629, 615, 602, 588, 574, 560, 545, 531,
     516, 501, 486, 471, 456, 441, 425, 409, 394, 378, 362, 346, 329, 313, 297,
     280, 264, 247, 230, 214, 197, 180, 163, 146, 129, 112, 95, 77, 60, 43,
     26, 9, -9, -26, -43, -60, -77, -95, -112, -129, -146, -163, -180, -197, -214,
     -230, -247, -264, -280, -297, -313, -329, -346, -362, -378, -394, -409, -425, -441, -456,
     -471, -486, -501, -516, -531, -545, -560, -574, -588, -602, -615, -629, -642, -655, -668,
     -681, -693, -706, -718, -730, -741, -753, -764, -775, -786, -796, -806, -817, -826, -836,
     -845, -854, -863, -872, -880, -888, -896, -903, -911, -918, -924, -931, -937, -943, -948,
     -954, -959, -963, -968, -972, -976, -980, -983, -986, -989, -991, -993, -995, -997, -998,
     -999, -1000, -1000, -1000, -1000, -999, -998, -997, -996, -994, -992, -990, -987, -984, -981,
     -978, -974, -970, -966, -961, -956, -951, -946, -940, -934, -928, -921, -914, -907, -900,
     -892, -884, -876, -867, -859, -850, -841, -831, -821, -812, -801, -791, -780, -769, -758,
     -747, -735, -724, -712, -699, -687, -674, -662, -649, -635, -622, -608, -595, -581, -567,
     -552, -538, -523, -509, -494, -479, -464, -448, -433, -417, -401, -386, -370, -354, -338,
     -321, -305, -288, -272, -255, -239, -222, -205, -188, -171, -154, -137, -120, -103, -86,
     -69, -52, -34, -17, 0, 17 >>
DayCosTable ==
  << 1000, 999, 999, 998, 996, 995, 993, 991, 988, 985, 982, 979, 975, 971, 967,
     962, 957, 952, 947, 941, 935, 929, 923, 916, 909, 902, 894, 886, 878, 870,
     861, 852, 843, 834, 824, 814, 804, 794, 783, 772, 761, 750, 738, 727, 715,
     703, 690, 678, 665, 652, 639, 625, 612, 598, 584, 570, 556, 542, 527, 512,
     498, 483, 467, 452, 437, 421, 405, 390, 374, 358, 342, 325, 309, 293, 276,
     260, 243, 226, 209, 192, 176, 159, 142, 124, 107, 90, 73, 56, 39, 22,
     4, -13, -30, -47, -65, -82, -99, -116, -133, -150, -167, -184, -201, -218, -234,
     -251, -268, -284, -301, -317, -333, -350, -366, -382, -398, -413, -429, -444, -460, -475,
     -490, -505, -520, -534, -549, -563, -577, -591, -605, -619, -632, -645, -658, -671, -684,
     -696, -709, -721, -732, -744, -755, -767, -778, -788, -799, -809, -819, -829, -838, -848,
     -857, -865, -874, -882, -890, -898, -905, -912, -919, -926, -932, -938, -944, -950, -955,
     -960, -965, -969, -973, -977, -980, -984, -987, -989, -992, -994, -996, -997, -998, -999,
     -1000, -1000, -1000, -1000, -999, -998, -997, -996, -994, -992, -989, -987, -984, -980, -977,
     -973, -969, -965, -960, -955, -950, -944, -938, -932, -926, -919, -912, -905, -898, -890,
     -882, -874, -865, -857, -848, -838, -829, -819, -809, -799, -788, -778, -767, -755, -744,
     -732, -721, -709, -696, -684, -671, -658, -645, -632, -619, -605, -591, -577, -563, -549,
     -534, -520, -505, -490, -475, -460, -444, -429, -413, -398, -382, -366, -350, -333, -317,
     -301, -284, -268, -251, -234, -218, -201, -184, -167, -150, -133, -116, -99, -82, -65,
     -47, -30, -13, 4, 22, 39, 56, 73, 90, 107, 124, 142, 159, 176, 192,
     209, 226, 243, 260, 276, 293, 309, 325, 342, 358, 374, 390, 405, 421, 437,
     452, 467, 483, 498, 512, 527, 542, 556, 570, 584, 598, 612, 625, 639, 652,
     665, 678, 690, 703, 715, 727, 738, 750, 761, 772, 783, 794, 804, 814, 824,
     834, 843, 852, 861, 870, 878, 886, 894, 902, 909, 916, 923, 929, 935, 941,
     947, 952, 957, 962, 967, 971, 975, 979, 982, 985, 988, 991, 993, 995, 996,
     998, 999, 999, 1000, 1000, 1000 >>

WET_MONTHS == {4, 5, 6, 9, 10, 11}

\* ---------------------------------------------------------------- results
Table(t)  == [kind |-> "table", v |-> t]
Matrix(m) == [kind |-> "matrix", v |-> m]
Raise(e)  == [kind |-> "error", v |-> e]
None      == [kind |-> "none"]

NRows(df) == Len(df[CHOOSE c \in DOMAIN df : TRUE])
HasColumns(df, names) == \A k \in 1..Len(names) : names[k] \in DOMAIN df

\* ------------------------------------------------------ engineer_features
FEATURE_COLUMNS ==
  << "rainfall_1h", "rainfall_3h", "rainfall_6h", "rainfall_12h",
     "rainfall_24h", "rainfall_48h", "rainfall_72h", "rainfall_7d",
     "antecedent_precipitation_index",
     "peak_intensity_6h", "peak_intensity_24h", "rainfall_variability_24h",
     "soil_moisture_surface", "soil_moisture_deep", "soil_moisture_combined",
     "soil_moisture_change_6h", "soil_moisture_change_24h",
     "temperature", "humidity", "pressure", "wind_speed",
     "pressure_change_6h", "pressure_change_24h",
     "humidity_x_rainfall", "heat_index",
     "month_sin", "month_cos",
     "day_of_year_sin", "day_of_year_cos",
     "is_wet_season" >>

\* the columns engineer_features indexes without a fallback
REQUIRED_COLUMNS ==
  << "time", "precipitation", "soil_moisture_0_to_7cm", "temperature_2m",
     "relative_humidity_2m", "surface_pressure", "wind_speed_10m" >>

K_NUM == 85
K_DEN == 100

\* k * x for k = 0.85
Decay(x) == (K_NUM * x) \div K_DEN

\* api[i] of the loop over range(1, len(df)); rows are numbered from 1 here.
\* ApiAtSeeded is the faulty variant that seeds the index with the first
\* row's precipitation.
RECURSIVE ApiAtSeeded(_, _)
ApiAtSeeded(p, i) ==
  IF i = 1 THEN Decay(p[1]) ELSE Decay(ApiAtSeeded(p, i - 1) + p[i])

RECURSIVE ApiAt(_, _)
ApiAt(p, i) == IF i = 1 THEN 0 ELSE Decay(ApiAt(p, i - 1) + p[i])

\* sm1 * 0.6 + sm2 * 0.4
Blend(a, b) == IF a = NaN \/ b = NaN THEN NaN ELSE (6 * a + 4 * b) \div 10

\* the DataFrame engineer_features returns for an input that has the
\* required columns
EngineerTable(df0) ==
  LET ord  == SortPerm(df0["time"])
      n    == Len(ord)
      df   == [c \in DOMAIN df0 |-> AsSeq([k \in 1..n |-> df0[c][ord[k]]])]
      p    == FillNa(df["precipitation"], 0)
      sum(w) == AsSeq([i \in 1..n |-> RollingSum(p, w, 1, i)])
      r24  == sum(24)
      raw1 == df["soil_moisture_0_to_7cm"]
      sm1  == FillNa(raw1, Median(raw1))
      sm2  == FillNaFrom(IF "soil_moisture_7_to_28cm" \in DOMAIN df
                         THEN df["soil_moisture_7_to_28cm"] ELSE sm1, sm1)
      smc  == AsSeq([i \in 1..n |-> Blend(sm1[i], sm2[i])])
      temp == FillNa(df["temperature_2m"], Median(df["temperature_2m"]))
      hum  == FillNa(df["relative_humidity_2m"], 80)
      pres == FillNa(df["surface_pressure"], 1013)
      time == df["time"]
      mon  == AsSeq([i \in 1..n |-> MonthOf(time[i])])
      doy  == AsSeq([i \in 1..n |-> DayOfYear(time[i])])
      new  ==
        [ precipitation   |-> p,
          rainfall_1h     |-> p,
          rainfall_3h     |-> sum(3),
          rainfall_6h     |-> sum(6),
          rainfall_12h    |-> sum(12),
          rainfall_24h    |-> r24,
          rainfall_48h    |-> sum(48),
          rainfall_72h    |-> sum(72),
          rainfall_7d     |-> sum(168),
          antecedent_precipitation_index |-> [i \in 1..n |-> ApiAt(p, i)],
          peak_intensity_6h  |-> FillNa([i \in 1..n |-> RollingMax(p, 6, i)], 0),
          peak_intensity_24h |-> FillNa([i \in 1..n |-> RollingMax(p, 24, i)], 0),
          rainfall_variability_24h |->
            FillNa([i \in 1..n |-> RollingStd(p, 24, i)], 0),
          soil_moisture_surface    |-> sm1,
          soil_moisture_deep       |-> sm2,
          soil_moisture_combined   |-> smc,
          soil_moisture_change_6h  |-> FillNa([i \in 1..n |-> Diff(smc, 6, i)], 0),
          soil_moisture_change_24h |-> FillNa([i \in 1..n |-> Diff(smc, 24, i)], 0),
          temperature     |-> temp,
          humidity        |-> hum,
          pressure        |-> pres,
          wind_speed      |-> FillNa(df["wind_speed_10m"], 0),
          pressure_change_6h  |-> FillNa([i \in 1..n |-> Diff(pres, 6, i)], 0),
          pressure_change_24h |-> FillNa([i \in 1..n |-> Diff(pres, 24, i)], 0),
          humidity_x_rainfall |-> [i \in 1..n |-> MulDiv(hum[i], r24[i], 100)],
          heat_index      |-> [i \in 1..n |-> MulDiv(temp[i], hum[i], 100)],
          month           |-> mon,
          month_sin       |-> [i \in 1..n |-> MonthSinTable[mon[i]]],
          month_cos       |-> [i \in 1..n |-> MonthCosTable[mon[i]]],
          day_of_year     |-> doy,
          day_of_year_sin |-> [i \in 1..n |-> DaySinTable[doy[i]]],
          day_of_year_cos |-> [i \in 1..n |-> DayCosTable[doy[i]]],
          is_wet_season   |-> [i \in 1..n |-> IF mon[i] \in WET_MONTHS THEN 1 ELSE 0] ]
  IN  [c \in DOMAIN df \cup DOMAIN new |->
         IF c \in DOMAIN new THEN new[c] ELSE df[c]]

\* faulty variant: engineer_features that also starts a new scaler
engineer_featuresReset(self, df) ==
  IF ~HasColumns(df, REQUIRED_COLUMNS)
  THEN [self |-> self, arg |-> df, result |-> Raise("KeyError")]
  ELSE [self   |-> [self EXCEPT !.feature_columns = FEATURE_COLUMNS,
                                !.scaler = [n |-> 0, sum |-> << >>, dev2 |-> << >>]],
        arg    |-> df,
        result |-> Table(EngineerTable(df))]

\* FloodFeatureEngineer.engineer_features(self, df): the instance after the
\* call, the caller's table object after the call, and what the call returns.
\* All derived columns are written to the sorted copy of line 26.
engineer_features(self, df) ==
  IF ~HasColumns(df, REQUIRED_COLUMNS)
  THEN [self |-> self, arg |-> df, result |-> Raise("KeyError")]
  ELSE [self   |-> [self EXCEPT !.feature_columns = FEATURE_COLUMNS],
        arg    |-> df,
        result |-> Table(EngineerTable(df))]

\* ---------------------------------------------------------- create_labels
CRITICAL_24H == 150 * MM
CRITICAL_72H == 300 * MM
HIGH_24H     == 75 * MM
HIGH_72H     == 150 * MM
MEDIUM_24H   == 30 * MM
MEDIUM_WET_24H == 15 * MM
SATURATED    == (35 * SM) \div 100

\* the three boolean conditions of one row, in list order
Conditions(r24, r72, smc) ==
  << Ge(r24, CRITICAL_24H) \/ Ge(r72, CRITICAL_72H),
     Ge(r24, HIGH_24H) \/ Ge(r72, HIGH_72H),
     Ge(r24, MEDIUM_24H) \/ (Ge(r24, MEDIUM_WET_24H) /\ Gt(smc, SATURATED)) >>

CHOICES == << "CRITICAL", "HIGH", "MEDIUM" >>

\* numpy.select for one row: the choice of the first condition that is True.
\* NpSelectLast is the faulty variant in which the last True condition wins.
NpSelectLast(condlist, choicelist, default) ==
  IF \A k \in 1..Len(condlist) : ~condlist[k] THEN default
  ELSE choicelist[CHOOSE k \in 1..Len(condlist) :
         condlist[k] /\ \A j \in (k + 1)..Len(condlist) : ~condlist[j]]

NpSelect(condlist, choicelist, default) ==
  IF \A k \in 1..Len(condlist) : ~condlist[k] THEN default
  ELSE choicelist[CHOOSE k \in 1..Len(condlist) :
         condlist[k] /\ \A j \in 1..(k - 1) : ~condlist[j]]

RISK_MAP == [LOW |-> 0, MEDIUM |-> 1, HIGH |-> 2, CRITICAL |-> 3]

LABEL_INPUTS == << "rainfall_24h", "rainfall_72h", "soil_moisture_combined" >>

\* FloodFeatureEngineer.create_labels(self, df): the two label columns are
\* assigned on the table object that was passed in, which is also returned.
create_labels(self, df) ==
  IF ~HasColumns(df, LABEL_INPUTS)
  THEN [self |-> self, arg |-> df, result |-> Raise("KeyError")]
  ELSE LET n     == NRows(df)
           level == [i \in 1..n |->
                       NpSelect(Conditions(df["rainfall_24h"][i],
                                           df["rainfall_72h"][i],
                                           df["soil_moisture_combined"][i]),
                                CHOICES, "LOW")]
           label == [i \in 1..n |-> RISK_MAP[level[i]]]
           out   == [c \in DOMAIN df \cup {"risk_level", "risk_label"} |->
                       IF c = "risk_level" THEN level
                       ELSE IF c = "risk_label" THEN label ELSE df[c]]
       IN  [self |-> self, arg |-> out, result |-> Table(out)]

\* --------------------------------------------------------- StandardScaler
(***************************************************************************)
(* A StandardScaler holds n_samples_seen_ and, per column, mean_ and var_. *)
(* They are kept exactly: mean_[k] = sum[k] / n, var_[k] = dev2[k] / n^3   *)
(* with dev2[k] the sum over the rows of (n * x - sum[k])^2; scale_[k] is  *)
(* sqrt(var_[k]), or 1 where var_[k] is 0.  A standardized value           *)
(* (x - mean_) / scale_ is held as the exact triple <num, n, dev2> with    *)
(* num = n * x - sum.  n = 0 is the scaler that has not been fit.          *)
(***************************************************************************)
UnfittedScaler == [n |-> 0, sum |-> << >>, dev2 |-> << >>]

RECURSIVE SumDev2(_, _, _, _)
SumDev2(col, n, S, i) ==
  IF i = 0 THEN 0
  ELSE (n * col[i] - S) * (n * col[i] - S) + SumDev2(col, n, S, i - 1)

\* df[self.feature_columns].fillna(0).values
Select(df, names) ==
  [rows |-> NRows(df),
   cols |-> [k \in 1..Len(names) |-> FillNa(df[names[k]], 0)]]

\* sklearn input validation: at least one sample and one feature
ValidInput(X) == X.rows >= 1 /\ Len(X.cols) >= 1

\* StandardScaler.fit on a validated matrix
ScalerFit(X) ==
  LET S(k) == SumRange(X.cols[k], 1, X.rows)
  IN  [n    |-> X.rows,
       sum  |-> [k \in 1..Len(X.cols) |-> S(k)],
       dev2 |-> [k \in 1..Len(X.cols) |-> SumDev2(X.cols[k], X.rows, S(k), X.rows)]]

\* (X - mean_) / scale_
ScalerApply(sc, X) ==
  [k \in 1..Len(X.cols) |->
     [i \in 1..X.rows |->
        [num |-> sc.n * X.cols[k][i] - sc.sum[k], n |-> sc.n, dev2 |-> sc.dev2[k]]]]

\* StandardScaler.transform
ScalerTransform(sc, X) ==
  IF sc.n = 0 THEN Raise("NotFittedError")
  ELSE IF ~ValidInput(X) \/ Len(X.cols) # Len(sc.sum)
       THEN Raise("ValueError: input validation")
       ELSE Matrix(ScalerApply(sc, X))

\* --------------------------------------------------- FloodFeatureEngineer
Inst == {"A", "B"}

\* __init__
NewInstance == [scaler |-> UnfittedScaler, feature_columns |-> << >>, fitted |-> FALSE]

STATE_ERROR == "ValueError: Call fit_transform before transform"

\* fit_transform(self, df).  StandardScaler.fit clears the scaler before it
\* validates its input.
fit_transform(self, df) ==
  IF ~HasColumns(df, self.feature_columns)
  THEN [self |-> self, arg |-> df, result |-> Raise("KeyError")]
  ELSE LET X == Select(df, self.feature_columns)
       IN  IF ~ValidInput(X)
           THEN [self   |-> [self EXCEPT !.scaler = UnfittedScaler],
                 arg    |-> df,
                 result |-> Raise("ValueError: input validation")]
           ELSE [self   |-> [self EXCEPT !.scaler = ScalerFit(X), !.fitted = TRUE],
                 arg    |-> df,
                 result |-> Matrix(ScalerApply(ScalerFit(X), X))]

\* faulty variant: transform without the guard on self._fitted
transformUnguarded(self, df) ==
  IF ~HasColumns(df, self.feature_columns)
  THEN [self |-> self, arg |-> df, result |-> Raise("KeyError")]
  ELSE [self |-> self, arg |-> df,
        result |-> ScalerTransform(self.scaler, Select(df, self.feature_columns))]

\* faulty variant: transform that fits the scaler on the matrix it is given
transformRefit(self, df) ==
  IF ~self.fitted
  THEN [self |-> self, arg |-> df, result |-> Raise(STATE_ERROR)]
  ELSE fit_transform(self, df)

\* transform(self, df)
transform(self, df) ==
  IF ~self.fitted
  THEN [self |-> self, arg |-> df, result |-> Raise(STATE_ERROR)]
  ELSE IF ~HasColumns(df, self.feature_columns)
  THEN [self |-> self, arg |-> df, result |-> Raise("KeyError")]
  ELSE [self |-> self, arg |-> df,
        result |-> ScalerTransform(self.scaler, Select(df, self.feature_columns))]

\* ------------------------------------------------------------ persistence
\* what joblib.dump writes at the path: the pickled dict
Pickled(data) == [kind |-> "pickle", data |-> data]
NoFile        == [kind |-> "absent"]
CorruptFile   == [kind |-> "corrupt"]

\* save(self, path) on a writable path
save(self) ==
  [self   |-> self,
   file   |-> Pickled([scaler          |-> self.scaler,
                       feature_columns |-> self.feature_columns,
                       fitted          |-> self.fitted]),
   result |-> None]

\* faulty variant: load that does not restore the feature-name list
loadKeepColumns(self, file) ==
  IF file.kind # "pickle" THEN [self |-> self, result |-> Raise("OSError")]
  ELSE IF "scaler" \notin DOMAIN file.data
  THEN [self |-> self, result |-> Raise("KeyError")]
  ELSE [self   |-> [self EXCEPT !.scaler = file.data["scaler"], !.fitted = TRUE],
        result |-> None]

\* load(self, path): joblib.load, then three assignments in order
load(self, file) ==
  IF file.kind = "absent" THEN [self |-> self, result |-> Raise("FileNotFoundError")]
  ELSE IF file.kind = "corrupt" THEN [self |-> self, result |-> Raise("UnpicklingError")]
  ELSE LET data == file.data
       IN  IF "scaler" \notin DOMAIN data
           THEN [self |-> self, result |-> Raise("KeyError")]
           ELSE IF "feature_columns" \notin DOMAIN data
           THEN [self   |-> [self EXCEPT !.scaler = data["scaler"]],
                 result |-> Raise("KeyError")]
           ELSE [self   |-> [scaler          |-> data["scaler"],
                             feature_columns |-> data["feature_columns"],
                             fitted          |-> IF "fitted" \in DOMAIN data
                                                 THEN data["fitted"] ELSE TRUE],
                 result |-> None]

\* ----------------------------------------------------------------- inputs
\* The hourly table WeatherDataFetcher builds for one location: n rows whose
\* precipitation in time order is vals, stored in ascending or descending
\* time order, the other readings complete ("full") or with gaps and without
\* the deep soil column ("gaps").
RawTable(vals, order, anc, start) ==
  LET n    == Len(vals)
      at(r) == IF order = "asc" THEN r ELSE n + 1 - r
      col(F(_)) == AsSeq([r \in 1..n |-> F(at(r))])
      time(k) == start + k - 1
      prec(k) == vals[k]
      soil0(k) == IF anc = "full" THEN 3600 + 10 * (k % 5)
                  ELSE IF k % 2 = 1 THEN NaN ELSE 3000 + 10 * k
      temp(k) == IF anc = "full" THEN 2000 + 10 * (k % 3)
                 ELSE IF k = 1 THEN NaN ELSE 1500 + 10 * k
      hum(k)  == IF anc = "full" THEN 70 + (k % 4) ELSE NaN
      pres(k) == IF anc = "full" THEN 1010 + (k % 2)
                 ELSE IF k = 2 THEN NaN ELSE 1000
      wind(k) == IF anc = "full" THEN 50 + (k % 2)
                 ELSE IF k = 1 THEN NaN ELSE 30
      deep(k) == IF k % 3 = 0 THEN NaN ELSE 3400
      base == [ time                   |-> col(time),
                precipitation          |-> col(prec),
                soil_moisture_0_to_7cm |-> col(soil0),
                temperature_2m         |-> col(temp),
                relative_humidity_2m   |-> col(hum),
                surface_pressure       |-> col(pres),
                wind_speed_10m         |-> col(wind) ]
  IN  IF anc = "full"
      THEN [c \in DOMAIN base \cup {"soil_moisture_7_to_28cm"} |->
              IF c = "soil_moisture_7_to_28cm" THEN col(deep) ELSE base[c]]
      ELSE base

\* storage order, completeness of the other readings, first timestamp
Variants == { <<"asc", "full", 0>>, <<"desc", "gaps", 2148>>, <<"desc", "full", 2148>> }

PrecipValues == {NaN, -500, 0, 500, 10 * MM}
ShortSeries == UNION {[1..n -> PrecipValues] : n \in 0..MaxShort}

\* long enough to fill the 24-row window: a base value with one spike
LongSeries ==
  {[k \in 1..n |-> IF k = pos THEN spike ELSE b] :
     n \in 23..(24 + MaxExtra), pos \in {1, 12, 23, 24, 24 + MaxExtra},
     spike \in {NaN, 200, 1500}, b \in {0, 500}}

RawInputs ==
  {RawTable(v, x[1], x[2], x[3]) : v \in ShortSeries, x \in Variants}
    \cup {RawTable(v, x[1], x[2], 2148) : v \in LongSeries, x \in Variants \ {<<"desc", "full", 2148>>}}

\* tables that hold the three columns create_labels reads
R24Values == {NaN, 14999, 15000, 29999, 30000, 74999, 75000, 149999, 150000}
R72Values == {NaN, 149999, 150000, 299999, 300000}
SoilValues == {NaN, 3500, 3501}
LabelRows == R24Values \X R72Values \X SoilValues
CornerRows ==
  { <<150000, NaN, NaN>>, <<NaN, 150000, 3501>>, <<15000, 0, 3501>>,
    <<15000, 0, 3500>>, <<14999, 299999, 3501>> }

LabelTable(rows) ==
  [ rainfall_24h           |-> [r \in 1..Len(rows) |-> rows[r][1]],
    rainfall_72h           |-> [r \in 1..Len(rows) |-> rows[r][2]],
    soil_moisture_combined |-> [r \in 1..Len(rows) |-> rows[r][3]] ]

LabelInputs ==
  {LabelTable(<<row>>) : row \in LabelRows}
    \cup {LabelTable(rows) : rows \in UNION {[1..n -> CornerRows] : n \in 2..MaxLabelRows}}

\* the few tables the lifecycle specification passes to an instance
MaxRows == 2

LifecycleSeries(n) == [k \in 1..n |-> (700 * k) % 2000]

LifecycleInputs ==
  {RawTable(LifecycleSeries(n), IF n % 2 = 0 THEN "desc" ELSE "asc", a, 0) :
     n \in 1..MaxRows, a \in {"full"}}

\* files found at the path before any save: none, an unreadable one, and
\* artifacts of other writers (one without the flag, one without the
\* scaler, one without the feature-name list)
ForeignScaler == [n |-> 2, sum |-> << 4, 6 >>, dev2 |-> << 8, 0 >>]
ForeignColumns == << "rainfall_1h", "rainfall_24h" >>
ForeignFiles ==
  << NoFile,
     CorruptFile,
     Pickled([scaler |-> ForeignScaler, feature_columns |-> ForeignColumns]),
     Pickled([feature_columns |-> ForeignColumns, fitted |-> TRUE]),
     Pickled([scaler |-> ForeignScaler, fitted |-> TRUE]) >>

\* ------------------------------------------------------------------ state
VARIABLES
  inst,   \* inst[i]: the fields scaler, feature_columns, _fitted of instance i
  disk,   \* the file at the path
  df,     \* the table the caller holds
  call,   \* the last call: operation, instance, the table object that was
          \* passed as it is after the call, and what was returned or raised
  hist,   \* per instance: has a fit_transform completed, has a load restored
          \* a set flag, the table of the fit the scaler still holds
  saved   \* who saved the file, from which fields, and the table its
          \* scaler was fit on

vars == << inst, disk, df, call, hist, saved >>

NoCall == [op |-> "none", self |-> "A", arg |-> None, result |-> None]

NoHist == [fitDone |-> FALSE, loadFitted |-> FALSE, fitOn |-> None]

Init ==
  /\ inst = [i \in Inst |-> NewInstance]
  /\ \E k \in 1..Len(ForeignFiles) : disk = ForeignFiles[k]
  /\ df \in LifecycleInputs
  /\ call = NoCall
  /\ hist = [i \in Inst |-> NoHist]
  /\ saved = None

\* df = fe.engineer_features(df): the caller goes on with the returned table
EngineerFeatures(i) ==
  LET out == engineer_features(inst[i], df)
  IN  /\ inst' = [inst EXCEPT ![i] = out.self]
      /\ df' = IF out.result.kind = "table" THEN out.result.v ELSE out.arg
      /\ call' = [op |-> "engineer_features", self |-> i,
                  arg |-> Table(out.arg), result |-> out.result]
      /\ UNCHANGED << disk, hist, saved >>

CreateLabels(i) ==
  LET out == create_labels(inst[i], df)
  IN  /\ inst' = [inst EXCEPT ![i] = out.self]
      /\ df' = out.arg
      /\ call' = [op |-> "create_labels", self |-> i,
                  arg |-> Table(out.arg), result |-> out.result]
      /\ UNCHANGED << disk, hist, saved >>

FitTransform(i) ==
  LET out == fit_transform(inst[i], df)
  IN  /\ inst' = [inst EXCEPT ![i] = out.self]
      /\ df' = out.arg
      /\ call' = [op |-> "fit_transform", self |-> i,
                  arg |-> Table(out.arg), result |-> out.result]
      /\ hist' = [hist EXCEPT ![i] =
                    IF out.result.kind = "matrix"
                    THEN [@ EXCEPT !.fitDone = TRUE, !.fitOn = Table(df)]
                    ELSE IF out.self.scaler # inst[i].scaler
                    THEN [@ EXCEPT !.fitOn = None]
                    ELSE @]
      /\ UNCHANGED << disk, saved >>

Transform(i) ==
  LET out == transform(inst[i], df)
  IN  /\ inst' = [inst EXCEPT ![i] = out.self]
      /\ df' = out.arg
      /\ call' = [op |-> "transform", self |-> i,
                  arg |-> Table(out.arg), result |-> out.result]
      /\ UNCHANGED << disk, hist, saved >>

\* save on a writable path
Save(i) ==
  LET out == save(inst[i])
  IN  /\ inst' = [inst EXCEPT ![i] = out.self]
      /\ disk' = out.file
      /\ saved' = [kind |-> "snapshot", by |-> i, state |-> inst[i],
                   fitOn |-> hist[i].fitOn]
      /\ call' = [op |-> "save", self |-> i, arg |-> None, result |-> out.result]
      /\ UNCHANGED << df, hist >>

\* save on a path that cannot be written: mkdir or the dump raises
SaveFails(i) ==
  /\ call' = [op |-> "save", self |-> i, arg |-> None, result |-> Raise("OSError")]
  /\ UNCHANGED << inst, disk, df, hist, saved >>

Load(i) ==
  LET out == load(inst[i], disk)
  IN  /\ inst' = [inst EXCEPT ![i] = out.self]
      /\ call' = [op |-> "load", self |-> i, arg |-> None, result |-> out.result]
      /\ hist' = [hist EXCEPT ![i] =
                    [fitDone    |-> @.fitDone,
                     loadFitted |-> @.loadFitted
                                      \/ (out.result.kind = "none" /\ out.self.fitted),
                     fitOn      |-> IF out.self.scaler = inst[i].scaler
                                    THEN @.fitOn
                                    ELSE IF out.result.kind = "none" /\ saved.kind = "snapshot"
                                    THEN saved.fitOn ELSE None]]
      /\ UNCHANGED << disk, df, saved >>

\* fetch_historical / fetch_forecast hands the caller another table
Fetch ==
  /\ df' \in LifecycleInputs
  /\ df' # df
  /\ call' = [op |-> "fetch", self |-> call.self, arg |-> None, result |-> Table(df')]
  /\ UNCHANGED << inst, disk, hist, saved >>

\* A is the instance the training side builds and runs every operation on;
\* B is the one the serving side constructs, loads and transforms with.
Next ==
  \/ EngineerFeatures("A")
  \/ CreateLabels("A")
  \/ FitTransform("A")
  \/ Save("A")
  \/ SaveFails("A")
  \/ \E i \in Inst : Transform(i)
  \/ \E i \in Inst : Load(i)
  \/ Fetch

Spec == Init /\ [][Next]_vars

\* The two table-building operations on their own, one input table per
\* behaviour, drawn from the wider families
InitFeatures ==
  /\ inst = [i \in Inst |-> NewInstance]
  /\ disk = NoFile
  /\ df \in RawInputs \cup LabelInputs
  /\ call = NoCall
  /\ hist = [i \in Inst |-> NoHist]
  /\ saved = None

NextFeatures ==
  \/ EngineerFeatures("A")
  \/ CreateLabels("A")

SpecFeatures == InitFeatures /\ [][NextFeatures]_vars

\* ================================================================= claims
IsTableOf(op) == call.op = op /\ call.result.kind = "table"

\* ------------------------------------------------------------------- C1
EverFitted(i) == hist[i].fitDone \/ hist[i].loadFitted

\* C1: transform returns a standardized matrix only on an instance on which
\* an earlier fit_transform completed or an earlier load restored a set
\* fitted flag; on any other instance it raises the state error.
TransformRequiresFit ==
  call.op = "transform" =>
    /\ call.result.kind = "matrix" => EverFitted(call.self)
    /\ ~EverFitted(call.self) => call.result = Raise(STATE_ERROR)

\* transform was refused on an instance that was never fitted although the
\* table has every feature column and a failed load left a fitted scaler
TransformRefusedWitness ==
  /\ call.op = "transform"
  /\ ~EverFitted(call.self)
  /\ call.result = Raise(STATE_ERROR)
  /\ inst[call.self].feature_columns = FEATURE_COLUMNS
  /\ inst[call.self].scaler.n > 0
  /\ HasColumns(df, FEATURE_COLUMNS)

\* ------------------------------------------------------------------- C2
\* the priority chain, read off the claim
ChainLevel(r24, r72, smc) ==
  IF Ge(r24, 150 * MM) \/ Ge(r72, 300 * MM) THEN "CRITICAL"
  ELSE IF Ge(r24, 75 * MM) \/ Ge(r72, 150 * MM) THEN "HIGH"
  ELSE IF Ge(r24, 30 * MM) \/ (Ge(r24, 15 * MM) /\ Gt(smc, 3500)) THEN "MEDIUM"
  ELSE "LOW"

Ordinal(level) ==
  CASE level = "LOW" -> 0 [] level = "MEDIUM" -> 1
    [] level = "HIGH" -> 2 [] level = "CRITICAL" -> 3

\* C2: every row of the table create_labels returns carries the first
\* matching label of the chain CRITICAL, HIGH, MEDIUM, else LOW, and
\* risk_label is that label's ordinal.
LabelsFollowPriorityChain ==
  IsTableOf("create_labels") =>
    LET t == call.result.v
    IN  \A r \in 1..NRows(t) :
          /\ t["risk_level"][r] =
               ChainLevel(t["rainfall_24h"][r], t["rainfall_72h"][r],
                          t["soil_moisture_combined"][r])
          /\ t["risk_label"][r] = Ordinal(t["risk_level"][r])

\* a row on which all three conditions are true was labelled CRITICAL
LabelsWitness ==
  /\ IsTableOf("create_labels")
  /\ \E r \in 1..NRows(call.result.v) :
       /\ call.result.v["rainfall_24h"][r] >= 150 * MM
       /\ call.result.v["risk_level"][r] = "CRITICAL"
       /\ call.result.v["risk_label"][r] = 3

\* ------------------------------------------------------------------- C3
ApiColumn == call.result.v["antecedent_precipitation_index"]

\* C3 as stated: precipitation [10, 0, 0] in time order gives the index
\* values [0, 8.5, 7.225].
ApiExampleAsStated ==
  (IsTableOf("engineer_features")
     /\ call.result.v["precipitation"] = << 10 * MM, 0, 0 >>)
    => ApiColumn = << 0, 8500, 7225 >>

\* C3 as amended: index[0] = 0 and index[i] = k * (index[i-1] + p[i]) with
\* k = 0.85, so that precipitation [10, 0, 0] gives [0, 0, 0] and
\* precipitation [0, 10, 0] gives [0, 8.5, 7.225].
ApiRecurrence ==
  IsTableOf("engineer_features") =>
    LET p == call.result.v["precipitation"]
    IN  /\ \A i \in 1..Len(p) :
             ApiColumn[i] = IF i = 1 THEN 0
                            ELSE (85 * (ApiColumn[i - 1] + p[i])) \div 100
        /\ p = << 10 * MM, 0, 0 >> => ApiColumn = << 0, 0, 0 >>
        /\ p = << 0, 10 * MM, 0 >> => ApiColumn = << 0, 8500, 7225 >>

\* engineer_features returned for the series [10, 0, 0]
ApiWitness ==
  /\ IsTableOf("engineer_features")
  /\ call.result.v["precipitation"] = << 10 * MM, 0, 0 >>
  /\ call.arg.v["time"] # call.result.v["time"]

PartialWindowsYieldZero ==
  IsTableOf("engineer_features") =>
    LET t == call.result.v
    IN  \A r \in 1..NRows(t) :
          /\ r <= 23 => /\ t["peak_intensity_24h"][r] = 0
                        /\ t["rainfall_variability_24h"][r] = 0
          /\ r <= 5  => t["peak_intensity_6h"][r] = 0

\* rain fell in the first rows, and the first full windows report it
PartialWindowsWitness ==
  /\ IsTableOf("engineer_features")
  /\ NRows(call.result.v) >= 24
  /\ call.result.v["precipitation"][1] > 0
  /\ call.result.v["precipitation"][12] > call.result.v["precipitation"][1]
  /\ call.result.v["peak_intensity_24h"][23] = 0
  /\ call.result.v["peak_intensity_24h"][24] > 0
  /\ call.result.v["rainfall_variability_24h"][24] > 0
  /\ call.result.v["peak_intensity_6h"][6] > 0

\* ------------------------------------------------------------------- C6
\* C6: after A's fit_transform on M and save, a load by another instance
\* restores the scaler, the feature-name list and the flag that were saved,
\* and its transform of M equals A's transform of M.
RoundTripRestoresState ==
  ( /\ call.op = "load"
    /\ call.result.kind = "none"
    /\ saved.kind = "snapshot"
    /\ saved.fitOn.kind = "table"
    /\ saved.state.fitted
    /\ call.self # saved.by
    /\ inst[saved.by] = saved.state )
  => /\ inst[call.self] = saved.state
     /\ transform(inst[call.self], saved.fitOn.v).result
          = transform(inst[saved.by], saved.fitOn.v).result

\* B loaded what A saved after fitting, and transforms M to a matrix
RoundTripWitness ==
  /\ call.op = "load"
  /\ call.self = "B"
  /\ call.result.kind = "none"
  /\ saved.kind = "snapshot"
  /\ saved.by = "A"
  /\ saved.fitOn.kind = "table"
  /\ hist["A"].fitDone
  /\ inst["A"] = saved.state
  /\ transform(inst["B"], saved.fitOn.v).result.kind = "matrix"

\* ------------------------------------------------------------------- C7
\* C7: a transform call, whether it returns or raises, leaves every
\* instance's scaler, feature-name list and flag as they were, and a second
\* transform of the same table returns what the first returned.
TransformNeverRefits ==
  [][call'.op = "transform" =>
       /\ inst' = inst
       /\ transform(inst'[call'.self], df).result = call'.result]_vars

\* transform returned a matrix for a table other than the one it was fit on
TransformWitness ==
  /\ call.op = "transform"
  /\ call.result.kind = "matrix"
  /\ hist[call.self].fitOn.kind = "table"
  /\ hist[call.self].fitOn.v # df

\* ------------------------------------------------------------------- C8
\* C8 as stated: engineer_features and create_labels leave the table object
\* they were passed as it was.
InputNeverMutated ==
  [][call'.op \in {"engineer_features", "create_labels"} =>
       call'.arg = Table(df)]_vars

\* ------------------------------------------------------------------- C9
\* C9 as stated: once a fit_transform has completed on an instance, no later
\* call changes its scaler or its feature-name list.
FittedParamsNeverChange ==
  [][\A i \in Inst :
       hist[i].fitDone =>
         /\ inst'[i].scaler = inst[i].scaler
         /\ inst'[i].feature_columns = inst[i].feature_columns]_vars

\* C9 as amended: an instance's scaler and flag are written only by its own
\* fit_transform and load, its feature-name list only by its own
\* engineer_features and load; transform, save and create_labels write none.
ParamsChangeOnlyByFitOrLoad ==
  [][\A i \in Inst :
       /\ (inst'[i].scaler # inst[i].scaler \/ inst'[i].fitted # inst[i].fitted)
            => call'.self = i /\ call'.op \in {"fit_transform", "load"}
       /\ inst'[i].feature_columns # inst[i].feature_columns
            => call'.self = i /\ call'.op \in {"engineer_features", "load"}]_vars

\* engineer_features ran on an instance whose scaler holds a fit
ParamsKeptWitness ==
  /\ call.op = "engineer_features"
  /\ call.result.kind = "table"
  /\ inst[call.self].fitted
  /\ inst[call.self].scaler.n > 0
  /\ hist[call.self].fitDone

\* ------------------------------------------------------------------ C10
\* C10 as stated: a load that raises leaves the scaler, the feature-name
\* list and the flag of the instance as they were.
FailedLoadKeepsState ==
  [][(call'.op = "load" /\ call'.result.kind = "error") => inst' = inst]_vars

====
